---- MODULE Spec2Model ----
(***************************************************************************)
(* Model of tensorflow/lite/delegates/gpu/metal/kernels/concat.cc: the     *)
(* generators of the Metal concatenation kernels (ConcatZ, ConcatX,        *)
(* ConcatY), the descriptors they assemble, and the execution of the       *)
(* generated kernels by the threads of the dispatch grid.                  *)
(*                                                                         *)
(* The generated shader text is kept as the sequence of statements the     *)
(* generator appends, one record per appended statement group; names of    *)
(* tensors are the strings the generator builds.                           *)
(***************************************************************************)
EXTENDS Integers, Sequences, FiniteSets, TLC

\* ------------------------------------------------------------------ bounds
\* Spec: number of inputs, extent of width/height, channel count per input.
MaxInputs == 2
MaxExtent == 2
MaxChannels == 5
\* Spec: threads of the grid that may be in flight at once.
MaxInFlight == 2
\* SpecGen: length of the shape list and extent along the concatenation axis.
MaxGenInputs == 3
MaxGenExtent == 5
\* SpecResize: width and height of the destination shape.
MaxResizeExtent == 17

VARIABLES
  axis,          \* attr.axis
  input_shapes,  \* the shapes handed to Concat, one BHWC per input
  dst_shape,     \* dst_shapes[0] handed to the uniform and resize callbacks
  phase,         \* "input" -> "generated" -> "dispatched"
  desc,          \* the ComputeTaskDescriptor: shader_source, src/dst bindings
  dispatch,      \* resize_function's group_size and groups, the grid, the uniforms
  lo,            \* threads 0..lo-1 of the grid (linear order) have retired
  window,        \* the launched threads lo..lo+MaxInFlight-1
  dst_tensor,    \* destination buffer: flat index -> FLT4 or Unwritten
  dst_writes,    \* every store executed: [index, gid, n, z]
  retired        \* the thread that finished last: [Z, nwrites]

vars == <<axis, input_shapes, dst_shape, phase, desc, dispatch, lo, window,
          dst_tensor, dst_writes, retired>>

\* ----------------------------------------------------------------- helpers
Min(a, b) == IF a < b THEN a ELSE b

\* common/util.h DivideRoundUp: ceil(n / divisor) in integer arithmetic.
DivideRoundUp(n, divisor) ==
  LET q == n \div divisor
  IN IF n % divisor = 0 THEN q ELSE q + 1

BHWC(b, h, w, c) == [b |-> b, h |-> h, w |-> w, c |-> c]

RECURSIVE SeqSum(_)
SeqSum(s) == IF s = <<>> THEN 0 ELSE s[1] + SeqSum(Tail(s))

Prefix(s, n) == SubSeq(s, 1, n)

\* "src_tensor" + std::to_string(i)
SrcTensorName(i) == "src_tensor" \o ToString(i)
DstTensorName == "dst_tensor"

\* const std::string postfix[] = {".x", ".y", ".z", ".w"};
postfix == <<".x", ".y", ".z", ".w">>

\* Mutant of IsAllChannelsX4: returns at the first channel count.
IsAllChannelsX4_FirstOnly(channels) ==
  channels = <<>> \/ channels[1] % 4 = 0

\* --------------------------------------------------------- IsAllChannelsX4
RECURSIVE IsAllChannelsX4(_)
IsAllChannelsX4(channels) ==
  IF channels = <<>> THEN TRUE
  ELSE IF channels[1] % 4 # 0 THEN FALSE
  ELSE IsAllChannelsX4(Tail(channels))

\* ---------------------------------------------------------- GetConcatZCode
\* The write block of the unaligned path: lines 106-112 (advance = TRUE, in
\* the loop) and lines 120-124 (advance = FALSE, the trailing flush, which
\* has neither "linear_index += U.src_size.w" nor "Z++").
WriteBlockLoop == [op |-> "write", advance |-> TRUE]
WriteBlockTail == [op |-> "write", advance |-> FALSE]

\* Mutant of LaneLoop: reads the lane it writes (postfix[out_channel]).
RECURSIVE LaneLoop_SameLane(_, _, _)
LaneLoop_SameLane(ch, channels_in_group, st) ==
  IF ch >= channels_in_group THEN st
  ELSE
    LET c1 == Append(st.c, [op |-> "lane",
                            out |-> postfix[st.out_channel + 1],
                            temp |-> "t" \o ToString(st.read_index),
                            in |-> postfix[st.out_channel + 1]])
        oc == st.out_channel + 1
    IN IF oc = 4
       THEN LaneLoop_SameLane(ch + 1, channels_in_group,
                     [st EXCEPT !.c = Append(c1, WriteBlockLoop),
                                !.out_channel = 0,
                                !.z = st.z + 1])
       ELSE LaneLoop_SameLane(ch + 1, channels_in_group,
                     [st EXCEPT !.c = c1, !.out_channel = oc])

\* for (int ch = 0; ch < channels_in_group; ++ch) { ... }
\* st = [c, out_channel, read_index, z]
RECURSIVE LaneLoop(_, _, _)
LaneLoop(ch, channels_in_group, st) ==
  IF ch >= channels_in_group THEN st
  ELSE
    LET c1 == Append(st.c, [op |-> "lane",
                            out |-> postfix[st.out_channel + 1],
                            temp |-> "t" \o ToString(st.read_index),
                            in |-> postfix[ch + 1]])
        oc == st.out_channel + 1
    IN IF oc = 4
       THEN LaneLoop(ch + 1, channels_in_group,
                     [st EXCEPT !.c = Append(c1, WriteBlockLoop),
                                !.out_channel = 0,
                                !.z = st.z + 1])
       ELSE LaneLoop(ch + 1, channels_in_group,
                     [st EXCEPT !.c = c1, !.out_channel = oc])

\* for (int d = 0; d < depth; ++d) { ... }
RECURSIVE GroupLoop(_, _, _, _, _)
GroupLoop(d, depth, i, channels, st) ==
  IF d >= depth THEN st
  ELSE
    LET channels_in_group == Min(4, channels[i + 1] - d * 4)
        c1 == Append(st.c, [op |-> "read",
                            temp |-> "t" \o ToString(st.read_index),
                            src |-> SrcTensorName(i),
                            d |-> d])
        st1 == LaneLoop(0, channels_in_group, [st EXCEPT !.c = c1])
    IN GroupLoop(d + 1, depth, i, channels,
                 [st1 EXCEPT !.read_index = st1.read_index + 1])

\* for (int i = 0; i < channels.size(); ++i) { ... }   (unaligned path)
RECURSIVE UnalignedLoop(_, _, _)
UnalignedLoop(i, channels, st) ==
  IF i >= Len(channels) THEN st
  ELSE UnalignedLoop(i + 1, channels,
         GroupLoop(0, DivideRoundUp(channels[i + 1], 4), i, channels, st))

\* for (int i = 0; i < channels.size(); ++i) { ... }   (aligned path)
RECURSIVE AlignedLoop(_, _, _)
AlignedLoop(i, channels, c) ==
  IF i >= Len(channels) THEN c
  ELSE AlignedLoop(i + 1, channels,
         Append(c, [op |-> "for",
                    depth |-> DivideRoundUp(channels[i + 1], 4),
                    src |-> SrcTensorName(i)]))

\* Mutant of UnalignedCode: the trailing flush is emitted unconditionally.
UnalignedCode_AlwaysFlush(channels) ==
  LET st == UnalignedLoop(0, channels,
                          [c |-> <<>>, out_channel |-> 0, read_index |-> 0, z |-> 0])
  IN Append(st.c, WriteBlockTail)

UnalignedCode(channels) ==
  LET st == UnalignedLoop(0, channels,
                          [c |-> <<>>, out_channel |-> 0, read_index |-> 0, z |-> 0])
  IN IF st.out_channel # 0 THEN Append(st.c, WriteBlockTail) ELSE st.c

GetConcatZCode(channels) ==
  IF IsAllChannelsX4(channels)
  THEN [kernel |-> "ConcatZ", path |-> "aligned",
        body |-> AlignedLoop(0, channels, <<>>)]
  ELSE [kernel |-> "ConcatZ", path |-> "unaligned",
        body |-> UnalignedCode(channels)]

\* ------------------------------------------------------------------ ConcatX
NoCond == -1

\* Mutant of ConcatXLoop: subtracts the offset after the input, not before.
RECURSIVE ConcatXLoop_OffsetAfter(_, _, _, _)
ConcatXLoop_OffsetAfter(buffer_index, input_shapes_, output_width, code) ==
  IF buffer_index >= Len(input_shapes_)
  THEN [code |-> code, output_width |-> output_width]
  ELSE
    LET dims == input_shapes_[buffer_index + 1]
        ow == output_width + dims.w
        guarded == buffer_index < Len(input_shapes_) - 1
    IN ConcatXLoop_OffsetAfter(buffer_index + 1, input_shapes_, ow,
         Append(code, [op |-> "select",
                       cond |-> IF guarded THEN ow ELSE NoCond,
                       src |-> SrcTensorName(buffer_index),
                       h |-> dims.h,
                       w |-> dims.w,
                       off |-> ow,
                       else |-> guarded]))

\* One iteration of the loop of lines 198-216: the optional "if (gid.x < W)",
\* the assignment from src_tensor<buffer_index>, the optional "else".
RECURSIVE ConcatXLoop(_, _, _, _)
ConcatXLoop(buffer_index, input_shapes_, output_width, code) ==
  IF buffer_index >= Len(input_shapes_)
  THEN [code |-> code, output_width |-> output_width]
  ELSE
    LET dims == input_shapes_[buffer_index + 1]
        ow == output_width + dims.w
        guarded == buffer_index < Len(input_shapes_) - 1
    IN ConcatXLoop(buffer_index + 1, input_shapes_, ow,
         Append(code, [op |-> "select",
                       cond |-> IF guarded THEN ow ELSE NoCond,
                       src |-> SrcTensorName(buffer_index),
                       h |-> dims.h,
                       w |-> dims.w,
                       off |-> ow - dims.w,
                       else |-> guarded]))

ConcatXCode(input_shapes_) ==
  LET r == ConcatXLoop(0, input_shapes_, 0, <<>>)
  IN [kernel |-> "ConcatX", path |-> "branch",
      body |-> Append(r.code, [op |-> "store",
                               h |-> input_shapes_[1].h,
                               w |-> r.output_width])]

\* ------------------------------------------------------------------ ConcatY
\* Mutant of ConcatYLoop: subtracts the offset after the input, not before.
RECURSIVE ConcatYLoop_OffsetAfter(_, _, _, _)
ConcatYLoop_OffsetAfter(buffer_index, input_shapes_, output_height, code) ==
  IF buffer_index >= Len(input_shapes_)
  THEN [code |-> code, output_height |-> output_height]
  ELSE
    LET dims == input_shapes_[buffer_index + 1]
        oh == output_height + dims.h
        guarded == buffer_index < Len(input_shapes_) - 1
    IN ConcatYLoop_OffsetAfter(buffer_index + 1, input_shapes_, oh,
         Append(code, [op |-> "select",
                       cond |-> IF guarded THEN oh ELSE NoCond,
                       src |-> SrcTensorName(buffer_index),
                       h |-> dims.h,
                       w |-> dims.w,
                       off |-> oh,
                       else |-> guarded]))

RECURSIVE ConcatYLoop(_, _, _, _)
ConcatYLoop(buffer_index, input_shapes_, output_height, code) ==
  IF buffer_index >= Len(input_shapes_)
  THEN [code |-> code, output_height |-> output_height]
  ELSE
    LET dims == input_shapes_[buffer_index + 1]
        oh == output_height + dims.h
        guarded == buffer_index < Len(input_shapes_) - 1
    IN ConcatYLoop(buffer_index + 1, input_shapes_, oh,
         Append(code, [op |-> "select",
                       cond |-> IF guarded THEN oh ELSE NoCond,
                       src |-> SrcTensorName(buffer_index),
                       h |-> dims.h,
                       w |-> dims.w,
                       off |-> oh - dims.h,
                       else |-> guarded]))

ConcatYCode(input_shapes_) ==
  LET r == ConcatYLoop(0, input_shapes_, 0, <<>>)
  IN [kernel |-> "ConcatY", path |-> "branch",
      body |-> Append(r.code, [op |-> "store",
                               h |-> r.output_height,
                               w |-> input_shapes_[1].w])]

\* ------------------------------------------------------------- descriptors
\* Mutant of AddSrcTensors: names the bindings from 1.
RECURSIVE AddSrcTensors_FromOne(_, _, _)
AddSrcTensors_FromOne(i, n, names) ==
  IF i >= n THEN names
  ELSE AddSrcTensors_FromOne(i + 1, n, Append(names, SrcTensorName(i + 1)))

\* desc.AddSrcTensor("src_tensor" + std::to_string(i), ...) for i < n
RECURSIVE AddSrcTensors(_, _, _)
AddSrcTensors(i, n, names) ==
  IF i >= n THEN names
  ELSE AddSrcTensors(i + 1, n, Append(names, SrcTensorName(i)))

\* The operation definition declares one source tensor per input shape.
SrcTensorCount(input_shapes_) == Len(input_shapes_)

ConcatZ(input_shapes_) ==
  LET channels == [i \in 1..Len(input_shapes_) |-> input_shapes_[i].c]
  IN [shader_source |-> GetConcatZCode(channels),
      src_tensors |-> AddSrcTensors(0, SrcTensorCount(input_shapes_), <<>>),
      dst_tensors |-> <<DstTensorName>>]

ConcatX(input_shapes_) ==
  [shader_source |-> ConcatXCode(input_shapes_),
   src_tensors |-> AddSrcTensors(0, Len(input_shapes_), <<>>),
   dst_tensors |-> <<DstTensorName>>]

ConcatY(input_shapes_) ==
  [shader_source |-> ConcatYCode(input_shapes_),
   src_tensors |-> AddSrcTensors(0, Len(input_shapes_), <<>>),
   dst_tensors |-> <<DstTensorName>>]

ConcatDesc(axis_, input_shapes_) ==
  IF axis_ = "CHANNELS" THEN ConcatZ(input_shapes_)
  ELSE IF axis_ = "WIDTH" THEN ConcatX(input_shapes_)
  ELSE ConcatY(input_shapes_)

NoDesc == [shader_source |-> [kernel |-> "none", path |-> "none", body |-> <<>>],
           src_tensors |-> <<>>, dst_tensors |-> <<>>]
NoDispatch == [group_size |-> <<0, 0, 0>>, groups |-> <<0, 0, 0>>,
               grid |-> <<0, 0, 0>>, uniforms |-> <<>>]
NoThread == [Z |-> 0, nwrites |-> 0, valid |-> FALSE]

\* Concat(definition, attr, input_shapes)
Concat ==
  /\ phase = "input"
  /\ desc' = ConcatDesc(axis, input_shapes)
  /\ phase' = "generated"
  /\ UNCHANGED <<axis, input_shapes, dst_shape, dispatch, lo, window,
                 dst_tensor, dst_writes, retired>>

\* ------------------------------------------------- uniforms and resize
\* ConcatZ uniform_buffers: U.src_size and U.dst_size (x, y, z, w).
ConcatZUniforms(src_shapes, dst_shapes) ==
  [src_size |-> <<src_shapes[1].w, src_shapes[1].h,
                  DivideRoundUp(src_shapes[1].c, 4),
                  src_shapes[1].w * src_shapes[1].h>>,
   dst_size |-> <<dst_shapes[1].w, dst_shapes[1].h,
                  DivideRoundUp(dst_shapes[1].c, 4),
                  dst_shapes[1].w * dst_shapes[1].h>>]

\* ConcatX / ConcatY uniform_buffers: size (x, y, z, padding).
ConcatXYUniforms(src_shapes, dst_shapes) ==
  [size |-> <<dst_shapes[1].w, dst_shapes[1].h,
              DivideRoundUp(dst_shapes[1].c, 4), 0>>]

\* Mutant of ConcatZResize: the grid depth of ConcatX and ConcatY.
ConcatZResize_DepthGrid(src_shapes, dst_shapes) ==
  LET group_size == <<8, 4, 1>>
  IN [group_size |-> group_size,
      groups |-> <<DivideRoundUp(dst_shapes[1].w, group_size[1]),
                   DivideRoundUp(dst_shapes[1].h, group_size[2]),
                   DivideRoundUp(dst_shapes[1].c, 4)>>]

\* ConcatZ resize_function
ConcatZResize(src_shapes, dst_shapes) ==
  LET grid == <<dst_shapes[1].w, dst_shapes[1].h, 1>>
      group_size == <<8, 4, 1>>
  IN [group_size |-> group_size,
      groups |-> <<DivideRoundUp(grid[1], group_size[1]),
                   DivideRoundUp(grid[2], group_size[2]),
                   DivideRoundUp(grid[3], group_size[3])>>]

\* Mutant of ConcatXYResize: groups_y divided by the group width.
ConcatXYResize_GroupWidth(src_shapes, dst_shapes) ==
  LET groups_size == <<8, 4, 1>>
      groups_x == DivideRoundUp(dst_shapes[1].w, groups_size[1])
      groups_y == DivideRoundUp(dst_shapes[1].h, groups_size[1])
      groups_z == DivideRoundUp(dst_shapes[1].c, 4)
  IN [group_size |-> groups_size,
      groups |-> <<groups_x, groups_y, groups_z>>]

\* ConcatX / ConcatY resize_function
ConcatXYResize(src_shapes, dst_shapes) ==
  LET groups_size == <<8, 4, 1>>
      groups_x == DivideRoundUp(dst_shapes[1].w, groups_size[1])
      groups_y == DivideRoundUp(dst_shapes[1].h, groups_size[2])
      groups_z == DivideRoundUp(dst_shapes[1].c, 4)
  IN [group_size |-> groups_size,
      groups |-> <<groups_x, groups_y, groups_z>>]

\* --------------------------------------------------------------- buffers
\* Contents of the source buffers are arbitrary: lane l of element index of
\* input i holds the value named <<i, index, l>>.  FLT4(0.0f) is ZeroVec.
SrcElement(i, index) == <<<<i, index, 0>>, <<i, index, 1>>,
                          <<i, index, 2>>, <<i, index, 3>>>>
ZeroLane == <<-1, 0, 0>>
ZeroVec == <<ZeroLane, ZeroLane, ZeroLane, ZeroLane>>
Unwritten == <<>>

\* Number of FLT4 elements of a tensor of the given shape.
BufferSize(shape) == shape.w * shape.h * DivideRoundUp(shape.c, 4)

\* The buffer an argument name of the shader is bound to: the position of
\* the name in the descriptor's source bindings.
BoundInput(name) ==
  CHOOSE i \in 0..(Len(desc.src_tensors) - 1) : desc.src_tensors[i + 1] = name

LaneIndex(p) == CHOOSE k \in 1..4 : postfix[k] = p

\* ----------------------------------------------------------------- threads
\* Threads of the grid in linear order, x fastest.
\* The grid is groups * group_size threads in each dimension.
GridOf(group_size, groups) == <<groups[1] * group_size[1],
                                groups[2] * group_size[2],
                                groups[3] * group_size[3]>>
GridThreadsOf(dp) == dp.grid[1] * dp.grid[2] * dp.grid[3]
GidOf(dp, t) == <<t % dp.grid[1],
                  (t \div dp.grid[1]) % dp.grid[2],
                  t \div (dp.grid[1] * dp.grid[2])>>
GridThreads == GridThreadsOf(dispatch)
Gid(t) == GidOf(dispatch, t)

FreshThread == [st |-> "fresh", pc |-> 1, it |-> 0, value |-> ZeroVec,
                temps |-> <<>>, xy_offset |-> 0, linear_index |-> 0,
                Z |-> 0, nwrites |-> 0]
ReturnedThread == [FreshThread EXCEPT !.st = "done"]

Body == desc.shader_source.body

\* ------------------------------------------------- the ConcatZ kernel body
\* if (X >= U.dst_size.x || Y >= U.dst_size.y) return;
ConcatZReturns(U, gid) == gid[1] >= U.dst_size[1] \/ gid[2] >= U.dst_size[2]

\* Mutant of ZPreamble: the row stride is U.src_size.y.
ZPreamble_HeightStride(gid) ==
  LET U == dispatch.uniforms
      xy_offset == gid[2] * U.src_size[2] + gid[1]
  IN [FreshThread EXCEPT !.st = "running", !.xy_offset = xy_offset,
                         !.linear_index = xy_offset]

\* Lines 59-66 past the bounds check.
ZPreamble(gid) ==
  LET U == dispatch.uniforms
      xy_offset == gid[2] * U.src_size[1] + gid[1]
  IN [FreshThread EXCEPT !.st = "running", !.xy_offset = xy_offset,
                         !.linear_index = xy_offset]

\* Statements up to the next store: the reads, the lane assignments and the
\* loop headers whose loop is exhausted.
RECURSIVE ZSilent(_)
ZSilent(th) ==
  IF th.pc > Len(Body) THEN th
  ELSE
    LET s == Body[th.pc]
        U == dispatch.uniforms
    IN CASE s.op = "read" ->
              ZSilent([th EXCEPT
                !.temps = (s.temp :> SrcElement(BoundInput(s.src),
                                       s.d * U.src_size[4] + th.xy_offset))
                          @@ th.temps,
                !.pc = th.pc + 1])
         [] s.op = "lane" ->
              ZSilent([th EXCEPT
                !.value[LaneIndex(s.out)] = th.temps[s.temp][LaneIndex(s.in)],
                !.pc = th.pc + 1])
         [] s.op = "for" ->
              IF th.it < s.depth THEN th
              ELSE ZSilent([th EXCEPT !.pc = th.pc + 1, !.it = 0])
         [] OTHER -> th

\* Mutant of ZStore: the trailing flush increments Z like the other blocks.
ZStore_TailIncrements(th) ==
  LET s == Body[th.pc]
      U == dispatch.uniforms
  IN IF s.op = "for"
     THEN LET src_index == th.it * U.src_size[4] + th.xy_offset
              value == SrcElement(BoundInput(s.src), src_index)
          IN [th |-> [th EXCEPT !.value = value,
                                !.linear_index = th.linear_index + U.src_size[4],
                                !.Z = th.Z + 1,
                                !.it = th.it + 1,
                                !.nwrites = th.nwrites + 1],
              index |-> th.linear_index, value |-> value, z |-> th.Z]
     ELSE [th |-> [th EXCEPT
                     !.linear_index = IF s.advance
                                      THEN th.linear_index + U.src_size[4]
                                      ELSE th.linear_index,
                     !.Z = th.Z + 1,
                     !.pc = th.pc + 1,
                     !.nwrites = th.nwrites + 1],
           index |-> th.linear_index, value |-> th.value, z |-> th.Z]

\* The store the thread is positioned at: one iteration of an aligned loop
\* (lines 77-83) or a write block of the unaligned path (lines 106-112,
\* 120-124).  Returns the thread after it and the store.
ZStore(th) ==
  LET s == Body[th.pc]
      U == dispatch.uniforms
  IN IF s.op = "for"
     THEN LET src_index == th.it * U.src_size[4] + th.xy_offset
              value == SrcElement(BoundInput(s.src), src_index)
          IN [th |-> [th EXCEPT !.value = value,
                                !.linear_index = th.linear_index + U.src_size[4],
                                !.Z = th.Z + 1,
                                !.it = th.it + 1,
                                !.nwrites = th.nwrites + 1],
              index |-> th.linear_index, value |-> value, z |-> th.Z]
     ELSE [th |-> [th EXCEPT
                     !.linear_index = IF s.advance
                                      THEN th.linear_index + U.src_size[4]
                                      ELSE th.linear_index,
                     !.Z = IF s.advance THEN th.Z + 1 ELSE th.Z,
                     !.pc = th.pc + 1,
                     !.nwrites = th.nwrites + 1],
           index |-> th.linear_index, value |-> th.value, z |-> th.Z]

\* ------------------------------------- the ConcatX and ConcatY kernel body
\* if (int(gid.x) >= size.x || int(gid.y) >= size.y) { return; }
ConcatXYReturns(U, gid) == gid[1] >= U.size[1] \/ gid[2] >= U.size[2]

\* The if / else-if chain: the first statement whose condition holds.
RECURSIVE Selected(_, _)
Selected(k, coord) ==
  LET s == Body[k]
  IN IF s.cond = NoCond \/ coord < s.cond THEN s
     ELSE Selected(k + 1, coord)

\* value = src_tensor<k>[(gid.y + gid.z * h) * w + gid.x - off]
ConcatXRead(gid) ==
  LET s == Selected(1, gid[1])
  IN SrcElement(BoundInput(s.src), (gid[2] + gid[3] * s.h) * s.w + gid[1] - s.off)

\* value = src_tensor<k>[(gid.y - off + gid.z * h) * w + gid.x]
ConcatYRead(gid) ==
  LET s == Selected(1, gid[2])
  IN SrcElement(BoundInput(s.src), (gid[2] - s.off + gid[3] * s.h) * s.w + gid[1])

\* const int linear_index = (gid.y + gid.z * h) * w + gid.x
XYLinearIndex(gid) ==
  LET s == Body[Len(Body)]
  IN (gid[2] + gid[3] * s.h) * s.w + gid[1]

\* ------------------------------------------------------------- scheduling
\* Threads are launched in grid order, at most MaxInFlight ahead of the
\* oldest thread that has not finished; the launched threads run in any
\* interleaving.  A thread that returns at the bounds check of its kernel
\* touches nothing shared: its return is taken with its launch.
Returns(kernel, dp, t) ==
  IF kernel = "ConcatZ" THEN ConcatZReturns(dp.uniforms, GidOf(dp, t))
  ELSE ConcatXYReturns(dp.uniforms, GidOf(dp, t))

\* The oldest thread at or after l that has not finished.
RECURSIVE Oldest(_, _, _, _)
Oldest(l, w, kernel, dp) ==
  IF l >= GridThreadsOf(dp) THEN l
  ELSE IF (IF l \in DOMAIN w THEN w[l].st = "done" ELSE Returns(kernel, dp, l))
  THEN Oldest(l + 1, w, kernel, dp)
  ELSE l

Launch(l, w, kernel, dp) ==
  LET l1 == Oldest(l, w, kernel, dp)
      ids == l1..(Min(l1 + MaxInFlight, GridThreadsOf(dp)) - 1)
  IN [lo |-> l1,
      window |-> [u \in ids |->
                    IF u \in DOMAIN w THEN w[u]
                    ELSE IF Returns(kernel, dp, u) THEN ReturnedThread
                    ELSE FreshThread]]

Retire(t, th) ==
  LET r == Launch(lo, [window EXCEPT ![t] = [th EXCEPT !.st = "done"]],
                  desc.shader_source.kernel, dispatch)
  IN /\ lo' = r.lo
     /\ window' = r.window
     /\ retired' = [Z |-> th.Z, nwrites |-> th.nwrites, valid |-> TRUE]

Store(t, w) ==
  /\ dst_writes' = dst_writes \cup
       {[index |-> w.index, gid |-> Gid(t), n |-> w.th.nwrites - 1, z |-> w.z]}
  /\ dst_tensor' = IF w.index \in DOMAIN dst_tensor
                   THEN [dst_tensor EXCEPT ![w.index] = w.value]
                   ELSE dst_tensor

\* ---------------------------------------------------------------- actions
\* The execution engine calls the uniform builder and the resize function
\* with the shapes of the bound tensors and launches the grid.
Resize ==
  /\ phase = "generated"
  /\ LET src_shapes == input_shapes
         dst_shapes == <<dst_shape>>
         r == IF axis = "CHANNELS" THEN ConcatZResize(src_shapes, dst_shapes)
              ELSE ConcatXYResize(src_shapes, dst_shapes)
         u == IF axis = "CHANNELS" THEN ConcatZUniforms(src_shapes, dst_shapes)
              ELSE ConcatXYUniforms(src_shapes, dst_shapes)
         dp == [group_size |-> r.group_size, groups |-> r.groups,
                grid |-> GridOf(r.group_size, r.groups), uniforms |-> u]
         l == Launch(0, <<>>, desc.shader_source.kernel, dp)
     IN /\ dispatch' = dp
        /\ lo' = l.lo
        /\ window' = l.window
  /\ phase' = "dispatched"
  /\ dst_tensor' = [i \in 0..(BufferSize(dst_shape) - 1) |-> Unwritten]
  /\ UNCHANGED <<axis, input_shapes, dst_shape, desc, dst_writes, retired>>

\* A thread of the ConcatZ kernel runs up to and including its next store,
\* and on to the end of the kernel when that was its last.
ConcatZThread(t) ==
  /\ phase = "dispatched"
  /\ desc.shader_source.kernel = "ConcatZ"
  /\ t \in DOMAIN window
  /\ window[t].st # "done"
  /\ LET th0 == IF window[t].st = "fresh" THEN ZSilent(ZPreamble(Gid(t)))
                ELSE window[t]
     IN IF th0.pc > Len(Body)
        THEN /\ Retire(t, th0)
             /\ UNCHANGED <<dst_tensor, dst_writes>>
        ELSE LET w == ZStore(th0)
                 th1 == ZSilent(w.th)
             IN /\ Store(t, w)
                /\ IF th1.pc > Len(Body)
                   THEN Retire(t, th1)
                   ELSE /\ window' = [window EXCEPT ![t] = th1]
                        /\ UNCHANGED <<lo, retired>>
  /\ UNCHANGED <<axis, input_shapes, dst_shape, phase, desc, dispatch>>

\* A thread of the ConcatX or ConcatY kernel runs the whole kernel.
ConcatXYThread(t) ==
  /\ phase = "dispatched"
  /\ desc.shader_source.kernel \in {"ConcatX", "ConcatY"}
  /\ t \in DOMAIN window
  /\ window[t].st # "done"
  /\ LET gid == Gid(t)
         value == IF desc.shader_source.kernel = "ConcatX"
                  THEN ConcatXRead(gid) ELSE ConcatYRead(gid)
         th == [window[t] EXCEPT !.value = value,
                                 !.linear_index = XYLinearIndex(gid),
                                 !.nwrites = 1]
         w == [th |-> th, index |-> th.linear_index,
               value |-> value, z |-> gid[3]]
     IN /\ Store(t, w)
        /\ Retire(t, th)
  /\ UNCHANGED <<axis, input_shapes, dst_shape, phase, desc, dispatch>>

\* ------------------------------------------------------------------ Spec
\* Inputs that satisfy the caller's precondition: positive extents, the
\* extents off the concatenation axis equal across the inputs, and the
\* destination the concatenation of the inputs.
ValidInputs(axis_) ==
  LET X == 1..MaxExtent
      C == 1..MaxChannels
      Ns == 1..MaxInputs
  IN IF axis_ = "CHANNELS"
     THEN UNION {[1..n -> {BHWC(1, h, w, c) : c \in C}] :
                   <<n, h, w>> \in Ns \X X \X X}
     ELSE IF axis_ = "WIDTH"
     THEN UNION {[1..n -> {BHWC(1, h, w, c) : w \in X}] :
                   <<n, h, c>> \in Ns \X X \X C}
     ELSE UNION {[1..n -> {BHWC(1, h, w, c) : h \in X}] :
                   <<n, w, c>> \in Ns \X X \X C}

Extents(shapes, f) == [i \in 1..Len(shapes) |-> shapes[i][f]]

DstShapeOf(axis_, shapes) ==
  IF axis_ = "CHANNELS"
  THEN BHWC(1, shapes[1].h, shapes[1].w, SeqSum(Extents(shapes, "c")))
  ELSE IF axis_ = "WIDTH"
  THEN BHWC(1, shapes[1].h, SeqSum(Extents(shapes, "w")), shapes[1].c)
  ELSE BHWC(1, SeqSum(Extents(shapes, "h")), shapes[1].w, shapes[1].c)

Init ==
  /\ axis \in {"CHANNELS", "WIDTH", "HEIGHT"}
  /\ input_shapes \in ValidInputs(axis)
  /\ dst_shape = DstShapeOf(axis, input_shapes)
  /\ phase = "input"
  /\ desc = NoDesc
  /\ dispatch = NoDispatch
  /\ lo = 0
  /\ window = <<>>
  /\ dst_tensor = <<>>
  /\ dst_writes = {}
  /\ retired = NoThread

Next ==
  \/ Concat
  \/ Resize
  \/ \E t \in DOMAIN window : ConcatZThread(t)
  \/ \E t \in DOMAIN window : ConcatXYThread(t)

Spec == Init /\ [][Next]_vars

Finished == phase = "dispatched" /\ lo = GridThreads

\* --------------------------------------------------------------- SpecGen
\* The generators as pure functions of the shape list: every list of up to
\* MaxGenInputs shapes whose extent along the concatenation axis is in
\* 0..MaxGenExtent (the empty list for the depth axis only: ConcatX and
\* ConcatY read input_shapes[0]).
GenShapes(axis_) ==
  LET E == 0..MaxGenExtent
      One == IF axis_ = "CHANNELS" THEN {BHWC(1, 2, 2, c) : c \in E}
             ELSE IF axis_ = "WIDTH" THEN {BHWC(1, 2, w, 4) : w \in E}
             ELSE {BHWC(1, h, 2, 4) : h \in E}
      Ns == IF axis_ = "CHANNELS" THEN 0..MaxGenInputs ELSE 1..MaxGenInputs
  IN UNION {[1..n -> One] : n \in Ns}

InitGen ==
  /\ axis \in {"CHANNELS", "WIDTH", "HEIGHT"}
  /\ input_shapes \in GenShapes(axis)
  /\ dst_shape = BHWC(1, 0, 0, 0)
  /\ phase = "input"
  /\ desc = NoDesc
  /\ dispatch = NoDispatch
  /\ lo = 0
  /\ window = <<>>
  /\ dst_tensor = <<>>
  /\ dst_writes = {}
  /\ retired = NoThread

SpecGen == InitGen /\ [][Concat]_vars

\* ------------------------------------------------------------ SpecResize
\* The resize and uniform callbacks as functions of the destination shape:
\* a single input of the destination's shape, every width and height up to
\* MaxResizeExtent.
InitResize ==
  /\ axis \in {"CHANNELS", "WIDTH", "HEIGHT"}
  /\ dst_shape \in {BHWC(1, h, w, c) : <<h, w, c>> \in
                      (1..MaxResizeExtent) \X (1..MaxResizeExtent) \X (1..MaxChannels)}
  /\ input_shapes = <<dst_shape>>
  /\ phase = "input"
  /\ desc = NoDesc
  /\ dispatch = NoDispatch
  /\ lo = 0
  /\ window = <<>>
  /\ dst_tensor = <<>>
  /\ dst_writes = {}
  /\ retired = NoThread

NextResize == Concat \/ Resize

SpecResize == InitResize /\ [][NextResize]_vars

\* ------------------------------------------------ vocabulary of the claims
N == Len(input_shapes)
Channels == Extents(input_shapes, "c")
Widths == Extents(input_shapes, "w")
Heights == Extents(input_shapes, "h")
Generated == phase # "input"
Dispatched == phase = "dispatched"
Source == desc.shader_source

\* Sum of the first k entries of a sequence.
Before(s, k) == SeqSum(Prefix(s, k))

\* ceil(a / b) stated by its defining property.
Ceil(a, b) == CHOOSE n \in 0..a : n * b >= a /\ (n - 1) * b < a

Positions(op) == {p \in 1..Len(Body) : Body[p].op = op}
WritesBefore(p) == Cardinality({q \in Positions("write") : q < p})

\* Destination extents in FLT4 elements.
W == dst_shape.w
H == dst_shape.h
D == Ceil(dst_shape.c, 4)

\* -------------------------------------------------------------------- C6
\* C6: the depth-axis generator takes the aligned (looped) path exactly when
\* every channel count of the list is divisible by 4 (the empty list
\* included), and the unaligned (lane assembly) path otherwise.
C6_PathSelection ==
  (Generated /\ axis = "CHANNELS") =>
    LET aligned == \A i \in 1..N : Channels[i] % 4 = 0
    IN /\ Source.path = (IF aligned THEN "aligned" ELSE "unaligned")
       /\ aligned => \A p \in 1..Len(Body) : Body[p].op = "for"
       /\ ~aligned => \A p \in 1..Len(Body) : Body[p].op \in {"read", "lane", "write"}

C6_Witness ==
  /\ Generated /\ axis = "CHANNELS" /\ N = 3
  /\ Channels = <<4, 0, 4>>
  /\ Source.path = "aligned"

\* -------------------------------------------------------------------- C2
\* C2: on the unaligned path the number of emitted write blocks is
\* ceil(total_channels / 4) = DivideRoundUp(total_channels, 4), and the
\* trailing flush is emitted exactly when total_channels is not a multiple
\* of 4.
C2_FlushCount ==
  (Generated /\ axis = "CHANNELS" /\ Source.path = "unaligned") =>
    LET total == SeqSum(Channels)
        writes == Positions("write")
        tails == {p \in writes : ~Body[p].advance}
    IN /\ Cardinality(writes) = Ceil(total, 4)
       /\ Cardinality(writes) = DivideRoundUp(total, 4)
       /\ Cardinality(tails) = (IF total % 4 # 0 THEN 1 ELSE 0)
       /\ \A p \in tails : p = Len(Body)

C2_Witness ==
  /\ Generated /\ axis = "CHANNELS" /\ Source.path = "unaligned"
  /\ Channels = <<3, 5>>
  /\ Cardinality(Positions("write")) = 2
  /\ Body[Len(Body)] = WriteBlockLoop

\* -------------------------------------------------------------------- C7
\* C7: on the unaligned path, channel c of input i, with global channel
\* g = (channels of the inputs before i) + c, is assigned from lane c mod 4
\* of the temporary read from src_tensor<i> at group c div 4 to lane g mod 4
\* of value, after exactly g div 4 write blocks and before write block
\* g div 4; every read has a temporary of its own.
C7_Assigned(i, c) ==
  LET g == Before(Channels, i - 1) + c
  IN \E p \in Positions("lane") :
       /\ Body[p].out = postfix[(g % 4) + 1]
       /\ Body[p].in = postfix[(c % 4) + 1]
       /\ WritesBefore(p) = g \div 4
       /\ Cardinality(Positions("write")) > g \div 4
       /\ \E r \in Positions("read") :
            /\ r < p
            /\ Body[r].temp = Body[p].temp
            /\ Body[r].src = SrcTensorName(i - 1)
            /\ Body[r].d = c \div 4

C7_LaneAssembly ==
  (Generated /\ axis = "CHANNELS" /\ Source.path = "unaligned") =>
    /\ \A i \in 1..N : \A c \in 0..(Channels[i] - 1) : C7_Assigned(i, c)
    /\ Cardinality(Positions("lane")) = SeqSum(Channels)
    /\ \A r1, r2 \in Positions("read") :
         Body[r1].temp = Body[r2].temp => r1 = r2
    /\ \A r1, r2 \in Positions("read") :
         (Body[r1].src = Body[r2].src /\ Body[r1].d = Body[r2].d) => r1 = r2

C7_Witness ==
  /\ Generated /\ axis = "CHANNELS" /\ Source.path = "unaligned"
  /\ Channels = <<3, 5>>
  /\ C7_Assigned(2, 4)
  /\ Cardinality(Positions("read")) = 3

\* -------------------------------------------------------------------- C3
\* C3: the branch chain of ConcatX has one conditional branch per input but
\* the last and an unconditional else for the last; branch k tests
\* gid.x < w_0 + ... + w_k and reads src_tensor<k> with w_0 + ... + w_(k-1)
\* subtracted from gid.x; the row stride of the destination index is the sum
\* of all the widths.
C3_BranchChain ==
  (Generated /\ axis = "WIDTH") =>
    /\ Len(Body) = N + 1
    /\ \A k \in 1..N :
         /\ Body[k].op = "select"
         /\ Body[k].src = SrcTensorName(k - 1)
         /\ Body[k].off = Before(Widths, k - 1)
         /\ IF k < N
            THEN Body[k].cond = Before(Widths, k) /\ Body[k].else
            ELSE Body[k].cond = NoCond /\ ~Body[k].else
    /\ Body[N + 1].op = "store"
    /\ Body[N + 1].w = SeqSum(Widths)

C3_Witness ==
  /\ Generated /\ axis = "WIDTH"
  /\ Widths = <<2, 3, 4>>
  /\ Body[1].cond = 2 /\ Body[2].cond = 5 /\ Body[3].cond = NoCond
  /\ Body[4].w = 9

\* -------------------------------------------------------------------- C5
\* C5: the tensor names the generated source refers to are exactly the names
\* registered as bindings: src_tensor<i> for every i in [0, N), and
\* dst_tensor.
Referenced ==
  {Body[p].src : p \in Positions("read") \cup Positions("for") \cup Positions("select")}
  \cup (IF Positions("write") \cup Positions("for") \cup Positions("store") # {}
        THEN {"dst_tensor"} ELSE {})

Registered ==
  {desc.src_tensors[k] : k \in 1..Len(desc.src_tensors)}
  \cup {desc.dst_tensors[k] : k \in 1..Len(desc.dst_tensors)}

C4_Resize ==
  Dispatched =>
    /\ dispatch.group_size = <<8, 4, 1>>
    /\ dispatch.groups[1] = Ceil(dst_shape.w, 8)
    /\ dispatch.groups[2] = Ceil(dst_shape.h, 4)
    /\ dispatch.groups[3] = (IF axis = "CHANNELS" THEN 1 ELSE Ceil(dst_shape.c, 4))

C4_Witness ==
  /\ Dispatched /\ axis = "CHANNELS"
  /\ dst_shape.w = 17 /\ dst_shape.h = 9 /\ dst_shape.c = 5
  /\ dispatch.groups = <<3, 3, 1>>

\* -------------------------------------------------------------------- C1
\* C1 as stated: with a single input of the destination's shape, after all
\* threads have run every FLT4 element of dst_tensor equals the element of
\* src_tensor0 at the same index.
C1_PureCopy ==
  (Finished /\ N = 1) =>
    \A idx \in DOMAIN dst_tensor : dst_tensor[idx] = SrcElement(0, idx)

\* C1 amended: every lane that holds a channel of the tensor equals the
\* source lane; ConcatX, ConcatY and the aligned ConcatZ copy whole
\* elements; the unaligned ConcatZ leaves in the padding lanes of the last
\* element the initial zero or the lanes of the element before it.
C1_CopyOfChannels ==
  (Finished /\ N = 1) =>
    \A idx \in DOMAIN dst_tensor :
      LET z == idx \div (W * H)
          whole == axis # "CHANNELS" \/ Source.path = "aligned"
      IN /\ dst_tensor[idx] # Unwritten
         /\ \A l \in 1..4 :
              IF whole \/ 4 * z + (l - 1) < dst_shape.c
              THEN dst_tensor[idx][l] = SrcElement(0, idx)[l]
              ELSE dst_tensor[idx][l] =
                     (IF z = 0 THEN ZeroLane ELSE SrcElement(0, idx - W * H)[l])

C1_Witness ==
  /\ Finished /\ N = 1 /\ axis = "CHANNELS" /\ Source.path = "unaligned"
  /\ dst_shape.c = 5 /\ W = 2 /\ H = 2
  /\ dst_tensor[7][1] = SrcElement(0, 7)[1]

\* -------------------------------------------------------------------- C8
\* C8: in the ConcatY kernel the element stored at (y + z * H) * W + x is
\* the element ((y - off_k) + z * h_k) * W + x of src_tensor<k>, k being the
\* input with off_k <= y < off_k + h_k and off_k the sum of the heights
\* before k; the thread (x, y, z) stores at that index and nowhere else.
C8_InputOf(y) ==
  CHOOSE k \in 1..N : Before(Heights, k - 1) <= y /\ y < Before(Heights, k)

C8_ConcatY ==
  (Dispatched /\ axis = "HEIGHT") =>
    /\ \A x \in 0..(W - 1), y \in 0..(H - 1), z \in 0..(D - 1) :
         LET idx == (y + z * H) * W + x
             k == C8_InputOf(y)
             row == y - Before(Heights, k - 1)
         IN /\ row >= 0 /\ row < Heights[k]
            /\ dst_tensor[idx] # Unwritten =>
                 dst_tensor[idx] = SrcElement(k - 1, (row + z * Heights[k]) * W + x)
            /\ Finished => dst_tensor[idx] # Unwritten
    /\ \A e \in dst_writes :
         e.index = (e.gid[2] + e.gid[3] * H) * W + e.gid[1]

C8_Witness ==
  /\ Finished /\ axis = "HEIGHT" /\ Heights = <<1, 2>>
  /\ W = 2 /\ dst_shape.c = 5
  /\ dst_tensor[(2 + 1 * 3) * 2 + 1] = SrcElement(1, (1 + 1 * 2) * 2 + 1)

\* -------------------------------------------------------------------- C9
\* C9 as stated: in the depth-axis kernel, after an in-bounds thread has run
\* the whole kernel body, Z equals the number of stores it performed.
C9_ZCountsWrites ==
  (Dispatched /\ axis = "CHANNELS" /\ retired.valid) =>
    retired.Z = retired.nwrites

\* C9 amended: Z starts at 0 and is incremented after every store but the
\* trailing flush of the unaligned path: at every store Z is the number of
\* stores the thread performed before it, and after the whole body Z is the
\* number of stores, less one when the trailing flush was emitted.
C9_ZCountsAdvancingWrites ==
  (Dispatched /\ axis = "CHANNELS") =>
    LET tail == Source.path = "unaligned" /\ SeqSum(Channels) % 4 # 0
    IN /\ \A e \in dst_writes : e.z = e.n
       /\ \A t \in DOMAIN window :
            window[t].st = "running" => window[t].Z = window[t].nwrites
       /\ retired.valid =>
            /\ retired.nwrites = D
            /\ retired.Z = (IF tail THEN retired.nwrites - 1 ELSE retired.nwrites)

C9_Witness ==
  /\ Dispatched /\ axis = "CHANNELS" /\ retired.valid
  /\ Source.path = "unaligned" /\ SeqSum(Channels) = 6
  /\ retired.nwrites = 2 /\ retired.Z = 1

\* ------------------------------------------------------------------- C10
\* C10: under the caller's precondition no destination index is stored to
\* twice, threads outside the destination's width and height store nothing,
\* and once the grid has run the indices stored to are exactly
\* 0 .. W * H * D - 1.
C10_WrittenOnce ==
  Dispatched =>
    /\ \A e1, e2 \in dst_writes : e1.index = e2.index => e1 = e2
    /\ \A e \in dst_writes : e.gid[1] < W /\ e.gid[2] < H
    /\ {e.index : e \in dst_writes} \subseteq 0..(W * H * D - 1)
    /\ Finished => {e.index : e \in dst_writes} = 0..(W * H * D - 1)

C10_Witness ==
  /\ Finished /\ N = 2 /\ axis = "CHANNELS"
  /\ W = 2 /\ H = 2 /\ D = 2
  /\ Cardinality(dst_writes) = 8

====
